---- MODULE Spec2Model ----
(***************************************************************************)
(* Model of src/filter_users.py: the interactive user filtering tool.      *)
(*                                                                         *)
(* A string is a sequence of characters; a character is a one-element      *)
(* token ("a", "@", ...).  The token "^2" stands for U+00B2 (superscript   *)
(* two), a character for which str.isdigit() is true and int() raises      *)
(* ValueError.  A user record is a function whose domain is the set of     *)
(* keys the JSON object has, so user["id"] is defined exactly when "id" is *)
(* in DOMAIN user.                                                         *)
(*                                                                         *)
(* A state is the program blocked in input() (pc is the prompt it waits    *)
(* at) or terminated (Done: fell off the end of the script; Crashed: an    *)
(* exception reached the top level).  One action is one line typed by the  *)
(* operator, followed by everything the script does until the next input() *)
(* or its end.                                                             *)
(***************************************************************************)
EXTENDS Integers, Sequences, FiniteSets

\* ---------------------------------------------------------------- bounds
\* longest list of records in users.json
MaxUsers == 2
\* longest raw line typed at the name and age prompts
MaxLen == 2

SeqsUpTo(S, n) == UNION {[1..k -> S] : k \in 0..n}

\* ---------------------------------------------------------------- strings
UpperLetters == <<"A", "B", "D", "E", "G", "I", "L", "M", "N">>
LowerLetters == <<"a", "b", "d", "e", "g", "i", "l", "m", "n">>
Range(s) == {s[i] : i \in DOMAIN s}

\* str.lower(), one character
LowerChar(c) ==
    IF c \in Range(UpperLetters)
    THEN LowerLetters[CHOOSE i \in DOMAIN UpperLetters : UpperLetters[i] = c]
    ELSE c

\* str.lower()
Lower(s) == [i \in DOMAIN s |-> LowerChar(s[i])]

IsSpace(c) == c = " "

RECURSIVE LStrip(_)
LStrip(s) == IF s # <<>> /\ IsSpace(Head(s)) THEN LStrip(Tail(s)) ELSE s

RECURSIVE RStrip(_)
RStrip(s) ==
    IF s # <<>> /\ IsSpace(s[Len(s)]) THEN RStrip(SubSeq(s, 1, Len(s) - 1)) ELSE s

\* str.strip()
Strip(s) == RStrip(LStrip(s))

DecimalChars == {"0", "1"}
\* characters with the Unicode property Numeric_Type=Digit or Decimal
DigitChars == DecimalChars \cup {"^2"}

\* str.isdigit() replaced by a test for a non-empty string
IsDigitNonEmpty(s) == s # <<>>

\* str.isdigit(): non-empty and every character is a digit
IsDigit(s) == s # <<>> /\ \A i \in DOMAIN s : s[i] \in DigitChars

DecimalValue(c) == IF c = "1" THEN 1 ELSE 0

RECURSIVE IntDigits(_)
IntDigits(s) ==
    IF s = <<>> THEN 0
    ELSE IntDigits(SubSeq(s, 1, Len(s) - 1)) * 10 + DecimalValue(s[Len(s)])

Unsigned(s) == IF s # <<>> /\ Head(s) \in {"-", "+"} THEN Tail(s) ELSE s

\* int(s) returns (otherwise it raises ValueError)
IntParses(s) ==
    LET d == Unsigned(Strip(s))
    IN  d # <<>> /\ \A i \in DOMAIN d : d[i] \in DecimalChars

\* int(s), where it returns
int(s) ==
    LET t == Strip(s)
    IN  IF t # <<>> /\ Head(t) = "-" THEN 0 - IntDigits(Tail(t))
        ELSE IntDigits(Unsigned(t))

\* \w of the regular expression
WordChar(c) ==
    c \in Range(UpperLetters) \cup Range(LowerLetters) \cup DigitChars \cup {"_"}

\* [\w\.-] of the regular expression
LocalChar(c) == WordChar(c) \/ c \in {".", "-"}

\* re.match(r"^[\w\.-]+@[\w\.-]+\.\w+$", email) is not None
is_valid_email(email) ==
    \E at \in DOMAIN email : \E dot \in DOMAIN email :
        /\ 1 < at /\ at + 1 < dot /\ dot < Len(email)
        /\ email[at] = "@" /\ email[dot] = "."
        /\ \A i \in 1..(at - 1) : LocalChar(email[i])
        /\ \A i \in (at + 1)..(dot - 1) : LocalChar(email[i])
        /\ \A i \in (dot + 1)..Len(email) : WordChar(email[i])

\* ---------------------------------------------------------------- data
Names == {<<"A", "b">>, <<"b">>}
Ages == {1, 10}
Emails == {<<"A", "@", "a", ".", "a">>}
Ids == {7}

\* JSON objects with name and age, and with or without email and id
Users ==
    [name : Names, age : Ages]
        \cup [name : Names, age : Ages, email : Emails]
        \cup [name : Names, age : Ages, id : Ids]
        \cup [name : Names, age : Ages, email : Emails, id : Ids]

\* users.json: absent, not JSON, or a JSON list of records
Files ==
    {[kind |-> k, users |-> <<>>] : k \in {"missing", "invalid"}}
        \cup {[kind |-> "valid", users |-> us] : us \in SeqsUpTo(Users, MaxUsers)}

NA == <<"N", "/", "A">>

\* file            users.json as the filter's load_users() found it
\* pc              where the script is: a prompt it waits at, Done or Crashed
\* filter_option   the field selected (stripped, lower-cased)
\* line            the raw line typed last
\* typed_at        the prompt that line was typed at (None before any line)
\* printed         what the script printed after that line
\* calls           the filter invocations made so far
\* users           the list load_users() returned to the filter
\* filtered_users  the list the filter's comprehension built
\* displayed       the record lines the filter printed
\* exception       the exception that ended the script, if any
VARIABLES file, pc, filter_option, line, typed_at, printed, calls, users,
          filtered_users, displayed, exception

vars == <<file, pc, filter_option, line, typed_at, printed, calls, users,
          filtered_users, displayed, exception>>

\* ---------------------------------------------------------------- load
\* load_users() with one notice for both failures
load_usersOneNotice(f) ==
    IF f.kind = "valid" THEN [users |-> f.users, out |-> <<>>]
    ELSE [users |-> <<>>, out |-> <<"ErrFileNotFound">>]

\* load_users(): the list read, and what it printed
load_users(f) ==
    IF f.kind = "valid" THEN [users |-> f.users, out |-> <<>>]
    ELSE IF f.kind = "missing" THEN [users |-> <<>>, out |-> <<"ErrFileNotFound">>]
    ELSE [users |-> <<>>, out |-> <<"ErrInvalidJSON">>]

\* the filters without their "if not users: return"
NoUsersNever(us) == FALSE

\* the "if not users: return" of every filter
NoUsers(us) == us = <<>>

\* user["name"] == name, the comparison without .lower()
NameMatchesExactly(user, name) == user.name = name

\* user["name"].lower() == name.lower()
NameMatches(user, name) == Lower(user.name) = Lower(name)

\* user["age"] == age
AgeMatches(user, age) == user.age = age

\* user.get("email", "")
EmailOf(user) == IF "email" \in DOMAIN user THEN user.email ELSE <<>>

\* user.get("email", "").lower() == email.lower()
EmailMatches(user, email) == Lower(EmailOf(user)) = Lower(email)

\* evaluating user['id'] in the f-string raises KeyError
RaisesKeyError(user) == "id" \notin DOMAIN user

\* the record line printed for a user: ID, Name, Age, Email (default N/A)
Line(user) ==
    [id |-> user.id, name |-> user.name, age |-> user.age,
     email |-> IF "email" \in DOMAIN user THEN user.email ELSE NA]

\* for user in filtered_users: print separator, record line, separator
RECURSIVE PrintUsers(_)
PrintUsers(us) ==
    IF us = <<>> THEN [out |-> <<>>, shown |-> <<>>, exc |-> "None"]
    ELSE IF RaisesKeyError(Head(us))
    THEN [out |-> <<"Sep">>, shown |-> <<>>, exc |-> "KeyError"]
    ELSE LET rest == PrintUsers(Tail(us))
         IN  [out |-> <<"Sep", "User", "Sep">> \o rest.out,
              shown |-> <<Line(Head(us))>> \o rest.shown,
              exc |-> rest.exc]

\* if filtered_users: ... else: print("No users found with that ...")
Present(filtered, nomatch) ==
    IF filtered # <<>> THEN PrintUsers(filtered)
    ELSE [out |-> <<nomatch>>, shown |-> <<>>, exc |-> "None"]

\* the body shared by the three filters: l is what load_users() gave and
\* filtered the list the comprehension builds from it
FilterBody(l, filtered, nomatch) ==
    IF NoUsers(l.users)
    THEN [users |-> l.users, out |-> l.out, filtered |-> <<>>, shown |-> <<>>,
          exc |-> "None"]
    ELSE LET p == Present(filtered, nomatch)
         IN  [users |-> l.users, out |-> l.out \o p.out, filtered |-> filtered,
              shown |-> p.shown, exc |-> p.exc]

filter_users_by_name(f, name) ==
    LET l == load_users(f)
    IN  FilterBody(l, SelectSeq(l.users, LAMBDA user : NameMatches(user, name)),
                   "NoUsersWithName")

filter_by_age(f, age) ==
    LET l == load_users(f)
    IN  FilterBody(l, SelectSeq(l.users, LAMBDA user : AgeMatches(user, age)),
                   "NoUsersWithAge")

filter_by_email(f, email) ==
    LET l == load_users(f)
    IN  FilterBody(l, SelectSeq(l.users, LAMBDA user : EmailMatches(user, email)),
                   "NoUsersWithEmail")

\* ---------------------------------------------------------------- driver
OptName == <<"n", "a", "m", "e">>
OptAge == <<"a", "g", "e">>
OptEmail == <<"e", "m", "a", "i", "l">>
\* valid_options with "id" added and no branch for it
valid_optionsWithId == {OptName, OptAge, OptEmail, <<"i", "d">>}

valid_options == {OptName, OptAge, OptEmail}

\* lines typed at the field prompt
FieldInputs ==
    {OptName, OptAge, OptEmail,
     <<" ", "N", "a", "m", "e">>, <<"A", "G", "E", " ">>,
     <<"E", "m", "a", "i", "l">>,
     <<"i", "d">>, <<"I", "D">>, <<>>, <<"n", "a", "m">>, <<"a", "g", "e", "1">>}

NameAlphabet == {"a", "A", "b"}
AgeAlphabet == {"0", "1", "^2"}

\* lines typed at the name prompt: every word up to MaxLen letters, and lines
\* that are blank or carry surrounding blanks
NameInputs ==
    SeqsUpTo(NameAlphabet, MaxLen)
        \cup {<<" ">>, <<" ", " ">>, <<" ", "b">>, <<"A", "B", " ">>,
              <<" ", "a", "b", " ">>}

\* lines typed at the age prompt: every digit string up to MaxLen characters,
\* and lines that are blank, signed, lettered or carry blanks
AgeInputs ==
    SeqsUpTo(AgeAlphabet, MaxLen)
        \cup {<<" ">>, <<"-", "1">>, <<"-", "5">>, <<"+", "1">>, <<"a">>,
              <<"a", "b", "c">>, <<"1", "a">>, <<"1", " ", "0">>,
              <<" ", "1", " ">>, <<"1", "0", " ">>}

\* lines typed at the email prompt
EmailInputs ==
    {<<>>, <<" ">>,
     <<"a", "@", "a", ".", "a">>, <<"A", "@", "A", ".", "A">>,
     <<" ", "a", "@", "A", ".", "a", " ">>,
     <<"b", "@", "a", ".", "a">>, <<"a", "@", ".", ".", "a">>,
     <<"a", "-", "b", "@", "a", ".", "a">>,
     <<"a", "@", "a">>, <<"a", "@", ".", "a">>, <<"@", "a", ".", "a">>,
     <<"a", "@", "a", ".", "-">>, <<"a", "@", "a", "@", "a", ".", "a">>,
     <<"a", " ", "a", "@", "a", ".", "a">>, <<"n", "-", "a">>}

Unread == [kind |-> "unread", users |-> <<>>]

Init ==
    /\ file = Unread
    /\ pc = "PromptField"
    /\ filter_option = <<>>
    /\ line = <<>>
    /\ typed_at = "None"
    /\ printed = <<"Welcome", "PromptField">>
    /\ calls = <<>>
    /\ users = <<>>
    /\ filtered_users = <<>>
    /\ displayed = <<>>
    /\ exception = "None"

\* the value loop and the prompt of a valid filter option
LoopOf(opt) ==
    IF opt = OptName THEN "NameLoop" ELSE IF opt = OptAge THEN "AgeLoop" ELSE "EmailLoop"

PromptOf(opt) ==
    IF opt = OptName THEN "PromptName"
    ELSE IF opt = OptAge THEN "PromptAge" ELSE "PromptEmail"

\* a filter call that is the last statement before break and the script's end
Invoke(fn, text, num, f, res) ==
    /\ file' = f
    /\ calls' = Append(calls, [fn |-> fn, text |-> text, num |-> num])
    /\ printed' = res.out
    /\ users' = res.users
    /\ filtered_users' = res.filtered
    /\ displayed' = res.shown
    /\ exception' = res.exc
    /\ pc' = IF res.exc = "None" THEN "Done" ELSE "Crashed"

\* a rejected value that leaves the loop (break where the code has continue)
RejectBreaks(msg, prompt) ==
    /\ printed' = <<msg>>
    /\ pc' = "Done"
    /\ UNCHANGED <<file, calls, users, filtered_users, displayed, exception>>

\* a rejected value: the error message, continue, and the prompt again
Reject(msg, prompt) ==
    /\ printed' = <<msg, prompt>>
    /\ UNCHANGED <<file, pc, calls, users, filtered_users, displayed, exception>>

\* filter_option = input(...).strip().lower() and the if / elif chain
SelectField ==
    /\ pc = "PromptField"
    /\ \E raw \in FieldInputs :
        LET opt == Lower(Strip(raw))
        IN  /\ line' = raw
            /\ typed_at' = pc
            /\ filter_option' = opt
            /\ IF opt \notin valid_options
               THEN /\ printed' = <<"InvalidOption">>
                    /\ pc' = "Done"
               ELSE /\ printed' = <<PromptOf(opt)>>
                    /\ pc' = LoopOf(opt)
            /\ UNCHANGED <<file, calls, users, filtered_users, displayed, exception>>

\* one iteration of the name loop
EnterName ==
    /\ pc = "NameLoop"
    /\ \E raw \in NameInputs :
        LET name_to_search == Strip(raw)
        IN  /\ line' = raw
            /\ typed_at' = pc
            /\ UNCHANGED filter_option
            /\ IF name_to_search # <<>>
               THEN \E f \in Files :
                        Invoke("filter_users_by_name", name_to_search, 0, f,
                               filter_users_by_name(f, name_to_search))
               ELSE Reject("NameEmpty", "PromptName")

\* one iteration of the age loop
EnterAge ==
    /\ pc = "AgeLoop"
    /\ \E raw \in AgeInputs :
        LET age_input == Strip(raw)
        IN  /\ line' = raw
            /\ typed_at' = pc
            /\ UNCHANGED filter_option
            /\ IF age_input = <<>>
               THEN Reject("AgeEmpty", "PromptAge")
               ELSE IF ~IsDigit(age_input)
               THEN Reject("AgeNotNumber", "PromptAge")
               ELSE IF ~IntParses(age_input)
               THEN \* int(age_input) raises ValueError, which nothing catches
                    /\ pc' = "Crashed"
                    /\ exception' = "ValueError"
                    /\ printed' = <<>>
                    /\ UNCHANGED <<file, calls, users, filtered_users, displayed>>
               ELSE IF int(age_input) < 0
               THEN Reject("AgeNegative", "PromptAge")
               ELSE \E f \in Files :
                        Invoke("filter_by_age", <<>>, int(age_input), f,
                               filter_by_age(f, int(age_input)))

\* one iteration of the email loop
EnterEmail ==
    /\ pc = "EmailLoop"
    /\ \E raw \in EmailInputs :
        LET email_to_search == Strip(raw)
        IN  /\ line' = raw
            /\ typed_at' = pc
            /\ UNCHANGED filter_option
            /\ IF email_to_search = <<>>
               THEN Reject("EmailEmpty", "PromptEmail")
               ELSE IF ~is_valid_email(email_to_search)
               THEN Reject("EmailInvalid", "PromptEmail")
               ELSE \E f \in Files :
                        Invoke("filter_by_email", email_to_search, 0, f,
                               filter_by_email(f, email_to_search))

Next == SelectField \/ EnterName \/ EnterAge \/ EnterEmail

Spec == Init /\ [][Next]_vars

\* ---------------------------------------------------------------- properties
Loops == {"NameLoop", "AgeLoop", "EmailLoop"}
LoadErrors == {"ErrFileNotFound", "ErrInvalidJSON"}
NoMatchMessages == {"NoUsersWithName", "NoUsersWithAge", "NoUsersWithEmail"}

Called(fn) == calls # <<>> /\ calls[1].fn = fn

\* the other case of a letter, any other character itself
ToggleChar(c) ==
    IF c \in Range(UpperLetters)
    THEN LowerLetters[CHOOSE i \in DOMAIN UpperLetters : UpperLetters[i] = c]
    ELSE IF c \in Range(LowerLetters)
    THEN UpperLetters[CHOOSE i \in DOMAIN LowerLetters : LowerLetters[i] = c]
    ELSE c

\* two strings that differ at most in the case of their letters
SameUpToCase(a, b) ==
    /\ Len(a) = Len(b)
    /\ \A i \in DOMAIN a : a[i] = b[i] \/ ToggleChar(a[i]) = b[i]

\* every string that differs from q only in letter case
CaseVariants(q) ==
    LET letters == {i \in DOMAIN q : ToggleChar(q[i]) # q[i]}
    IN  {[i \in DOMAIN q |-> IF i \in S THEN ToggleChar(q[i]) ELSE q[i]] :
            S \in SUBSET letters}

\* the record has the value the filter call asked for
Wanted(user) ==
    IF calls[1].fn = "filter_users_by_name" THEN SameUpToCase(user.name, calls[1].text)
    ELSE IF calls[1].fn = "filter_by_age" THEN user.age = calls[1].num
    ELSE "email" \in DOMAIN user /\ SameUpToCase(user.email, calls[1].text)

\* what the filter call left behind
Outcome ==
    [users |-> users, out |-> printed, filtered |-> filtered_users,
     shown |-> displayed, exc |-> exception]

\* C1: after a filter call on a loaded list, the record lines displayed are
\* those of exactly the records whose field matches the query, every one of
\* them, in file order.
C1_DisplaysExactlyTheMatches ==
    (calls # <<>> /\ file.kind = "valid") =>
        LET want == SelectSeq(file.users, Wanted)
        IN  /\ Len(displayed) = Len(want)
            /\ \A k \in DOMAIN want :
                /\ displayed[k].name = want[k].name
                /\ displayed[k].age = want[k].age
                /\ "id" \in DOMAIN want[k] => displayed[k].id = want[k].id
                /\ "email" \in DOMAIN want[k] => displayed[k].email = want[k].email

\* C2: a name or email filter call selects every record whose stored value
\* equals the query up to letter case, and the same call with any query that
\* differs only in letter case has the same outcome.
C2_CaseInsensitive ==
    (file.kind = "valid" /\ (Called("filter_users_by_name") \/ Called("filter_by_email"))) =>
        /\ filtered_users = SelectSeq(users, Wanted)
        /\ \A v \in CaseVariants(calls[1].text) :
            Outcome = IF Called("filter_users_by_name")
                      THEN filter_users_by_name(file, v)
                      ELSE filter_by_email(file, v)

\* C2 witness: a stored name matched by a query written in another case
C2_Witness ==
    /\ Called("filter_users_by_name")
    /\ calls[1].text = <<"A", "B">>
    /\ Len(filtered_users) = 2
    /\ filtered_users[1].name = <<"A", "b">>

\* C4: filtering a loaded list (the empty list included) on a value no record
\* has gives an empty result, prints the "no matches" message of the filter
\* and raises nothing.
C4_AbsentValueNoMatchMessage ==
    (calls # <<>> /\ file.kind = "valid" /\ SelectSeq(file.users, Wanted) = <<>>) =>
        /\ filtered_users = <<>>
        /\ displayed = <<>>
        /\ exception = "None"
        /\ printed =
            <<IF Called("filter_users_by_name") THEN "NoUsersWithName"
              ELSE IF Called("filter_by_age") THEN "NoUsersWithAge"
              ELSE "NoUsersWithEmail">>

\* C7: on a list whose records all have name and age, no filter call raises;
\* an email query selects no record without email, and every selected record
\* is displayed, one without email with N/A.
C7_MissingEmailOrIdTolerated ==
    (calls # <<>> /\ file.kind = "valid") =>
        /\ exception = "None"
        /\ Called("filter_by_email") =>
            \A k \in DOMAIN filtered_users : "email" \in DOMAIN filtered_users[k]
        /\ Len(displayed) = Len(filtered_users)
        /\ \A k \in DOMAIN displayed :
            "email" \notin DOMAIN filtered_users[k] => displayed[k].email = NA

\* an age line that is empty, non-numeric or negative: blank, or with a
\* character that is no digit (a sign, a letter, an inner blank)
BadAgeLine(l) == Strip(l) = <<>> \/ \E i \in DOMAIN Strip(l) : Strip(l)[i] \notin DigitChars

C5_LoadFailureGivesEmptyList ==
    (calls # <<>> /\ file.kind # "valid") =>
        /\ users = <<>>
        /\ exception = "None"
        /\ pc = "Done"
        /\ printed # <<>>
        /\ printed[1] = IF file.kind = "missing" THEN "ErrFileNotFound"
                        ELSE "ErrInvalidJSON"

\* C5 witness: a filter call on a users.json that is not JSON
C5_Witness ==
    /\ calls # <<>>
    /\ file.kind = "invalid"
    /\ users = <<>>
    /\ printed[1] = "ErrInvalidJSON"

SelectsId == typed_at # "None" /\ filter_option = <<"i", "d">>

\* C8 as stated: the field "id" selects an identifier filter: the script goes
\* on to a value and a filter call instead of ending on the selection.
C8_IdSelectsIdentifierFilter ==
    SelectsId => (pc \in Loops \/ calls # <<>>)

\* C8 amended: "id" is no supported field: selecting it prints the
\* invalid-option message and ends the script, with no value prompt, no load
\* and no filter call.
C8_IdIsInvalidOption ==
    SelectsId =>
        /\ pc = "Done"
        /\ printed = <<"InvalidOption">>
        /\ calls = <<>>
        /\ file = Unread

\* C8 witness: the line "ID" at the field prompt
C8_Witness ==
    /\ line = <<"I", "D">>
    /\ SelectsId
    /\ pc = "Done"

\* a value line its prompt rejects: blank; for age also non-digit; for email
\* also one failing is_valid_email
InvalidValue(at, l) ==
    \/ Strip(l) = <<>>
    \/ at = "AgeLoop" /\ BadAgeLine(l)
    \/ at = "EmailLoop" /\ ~is_valid_email(Strip(l))

FilterOf(at) ==
    IF at = "NameLoop" THEN "filter_users_by_name"
    ELSE IF at = "AgeLoop" THEN "filter_by_age" ELSE "filter_by_email"

\* C10: at the prompt of a valid field the script stays in the loop, with no
\* filter called, while the lines are invalid; the first valid line calls the
\* filter of the selected field once, with that input, and the script ends.
C10_FirstValidInputCallsFilterOnce ==
    /\ pc \in Loops => calls = <<>> /\ pc = LoopOf(filter_option)
    /\ calls # <<>> => Len(calls) = 1 /\ calls[1].fn = FilterOf(typed_at)
    /\ typed_at \in Loops =>
        IF InvalidValue(typed_at, line)
        THEN pc = typed_at /\ calls = <<>>
        ELSE /\ pc \notin Loops
             /\ Len(calls) = 1
             /\ calls[1].fn = FilterOf(typed_at)
             /\ IF typed_at = "AgeLoop"
                THEN calls[1].num = IntDigits(Strip(line))
                ELSE calls[1].text = Strip(line)

====
